---- MODULE Spec2Model ----
(***************************************************************************)
(* Model of the time-series engine of financemonitor                       *)
(* (src/src/utils/safe-env.ts, "Data Processor Utility").                  *)
(*                                                                         *)
(* Numbers.  The code computes on IEEE doubles; the model computes on      *)
(* exact rationals n/d in lowest terms (d > 0), so rounding is abstracted. *)
(* null is the value Null, and Math.log(x) is kept symbolic as Ln(x).      *)
(* The unit converter, whose round trip depends on rounding, rounds each   *)
(* product and quotient to the nearest number of Precision significant     *)
(* bits, ties to even, as IEEE 754 does with 53 bits.                      *)
(*                                                                         *)
(* Dates.  A canonical "YYYY-MM-DD" string is the integer YYYYMMDD, whose  *)
(* order is the string order.  new Date(s) reads s as UTC midnight and the *)
(* getters are modelled in UTC, the time zone of the Workers runtime.      *)
(***************************************************************************)
EXTENDS Integers, Sequences, FiniteSets, TLC

VARIABLES heap, dataRef, request, resultRef, inObs, kind, args, grouped, outObs,
          kv, upstream, clock, results

vars == <<heap, dataRef, request, resultRef, inObs, kind, args, grouped, outObs,
          kv, upstream, clock, results>>

(***************************************************************************)
(* Bounds of the model                                                     *)
(***************************************************************************)
MaxLen == 3        \* longest observation sequence given to a point transform
MaxLongLen == 12   \* longest sequence given to the moving averages
RichPrefix == 2    \* places of a long sequence that take more than one present value
MaxLimit == 2      \* largest `limit` requested
Precision == 8     \* significant bits of a number in the unit converter
MaxRecessionLen == 5  \* longest recession-indicator series
MaxClock == 5      \* the scheduler's clock stops here

(***************************************************************************)
(* number | null                                                           *)
(***************************************************************************)
Abs(x) == IF x < 0 THEN -x ELSE x

RECURSIVE GCD(_, _)
GCD(a, b) == IF b = 0 THEN a ELSE GCD(b, a % b)

Null == [t |-> "null", n |-> 0, d |-> 1]

Num(n, d) ==
  LET s == IF d < 0 THEN -1 ELSE 1
      g == GCD(Abs(n), Abs(d))
  IN  [t |-> "num", n |-> (s * n) \div g, d |-> (s * d) \div g]

Int2Num(k) == Num(k, 1)

IsNull(v) == v.t = "null"
IsZero(v) == v.t = "num" /\ v.n = 0

Add(a, b) == Num(a.n * b.d + b.n * a.d, a.d * b.d)
Sub(a, b) == Num(a.n * b.d - b.n * a.d, a.d * b.d)
Mul(a, b) == Num(a.n * b.n, a.d * b.d)
Div(a, b) == Num(a.n * b.d, a.d * b.n)
Less(a, b) == a.n * b.d < b.n * a.d

RECURSIVE Pow2(_)
Pow2(k) == IF k = 0 THEN 1 ELSE 2 * Pow2(k - 1)

\* n/d (n, d > 0) scaled by a power of two into [2^(Precision-1), 2^Precision):
\* <<numerator, denominator, exponent>> with n/d = numerator/denominator * 2^exponent
RECURSIVE Normalize(_, _, _)
Normalize(n, d, e) ==
  IF n >= d * Pow2(Precision) THEN Normalize(n, 2 * d, e + 1)
  ELSE IF n < d * Pow2(Precision - 1) THEN Normalize(2 * n, d, e - 1)
  ELSE <<n, d, e>>

\* the exact result of an operation rounded to the nearest representable
\* number, ties to the even significand
RoundToPrecision(v) ==
  IF v.n = 0 THEN v
  ELSE LET scaled == Normalize(Abs(v.n), v.d, 0)
           q == scaled[1] \div scaled[2]
           r == scaled[1] % scaled[2]
           m == IF 2 * r > scaled[2] \/ (2 * r = scaled[2] /\ q % 2 = 1) THEN q + 1 ELSE q
           sign == IF v.n < 0 THEN -1 ELSE 1
       IN  IF scaled[3] >= 0 THEN Num(sign * m * Pow2(scaled[3]), 1)
           ELSE Num(sign * m, Pow2(-scaled[3]))

\* Math.log: ln 1 = 0, any other ln x stays symbolic
Ln(v) == IF v.n = v.d THEN Int2Num(0) ELSE [t |-> "ln", n |-> v.n, d |-> v.d]

RECURSIVE SumSeq(_)
SumSeq(s) == IF s = <<>> THEN Int2Num(0) ELSE Add(SumSeq(SubSeq(s, 1, Len(s) - 1)), s[Len(s)])

(***************************************************************************)
(* Date: getFullYear, getMonth (0-based), getDate, setFullYear             *)
(***************************************************************************)
MkDate(y, m, d) == y * 10000 + m * 100 + d

getFullYear(date) == date \div 10000
getMonth(date) == ((date \div 100) % 100) - 1
getDate(date) == date % 100

IsLeapYear(y) == (y % 4 = 0 /\ y % 100 # 0) \/ y % 400 = 0

\* date.setFullYear(y): Feb 29 in a year without one rolls over to Mar 1
setFullYear(date, y) ==
  IF getMonth(date) = 1 /\ getDate(date) = 29 /\ ~IsLeapYear(y)
  THEN MkDate(y, 3, 1)
  ELSE MkDate(y, getMonth(date) + 1, getDate(date))

(***************************************************************************)
(* Point transforms                                                        *)
(***************************************************************************)
calculatePercentageChange_NoZeroGuard(observations) ==
  [index \in 1..Len(observations) |->
    LET obs == observations[index] IN
    IF index = 1 THEN [obs EXCEPT !.value = Null]
    ELSE LET previousValue == observations[index - 1].value IN
         IF IsNull(previousValue) THEN [obs EXCEPT !.value = Null]
         ELSE IF IsZero(previousValue) THEN [obs EXCEPT !.value = Int2Num(0)]
         ELSE [obs EXCEPT !.value =
                 Mul(Div(Sub(IF ~IsNull(obs.value) THEN obs.value ELSE Int2Num(0),
                             previousValue), previousValue), Int2Num(100))]]

calculatePercentageChange_DropFirst(observations) ==
  [index \in 1..(Len(observations) - 1) |->
    LET obs == observations[index + 1]
        previousValue == observations[index].value
    IN  IF IsNull(previousValue) \/ IsZero(previousValue)
        THEN [obs EXCEPT !.value = Null]
        ELSE [obs EXCEPT !.value =
                Mul(Div(Sub(IF ~IsNull(obs.value) THEN obs.value ELSE Int2Num(0),
                            previousValue), previousValue), Int2Num(100))]]

calculatePercentageChange(observations) ==
  [index \in 1..Len(observations) |->
    LET obs == observations[index] IN
    IF index = 1 THEN [obs EXCEPT !.value = Null]
    ELSE LET previousValue == observations[index - 1].value IN
         IF IsNull(previousValue) \/ IsZero(previousValue)
         THEN [obs EXCEPT !.value = Null]
         ELSE [obs EXCEPT !.value =
                 Mul(Div(Sub(IF ~IsNull(obs.value) THEN obs.value ELSE Int2Num(0),
                             previousValue), previousValue), Int2Num(100))]]

\* the Map built by observations.forEach(... dateMap.set(key, ...)): the last
\* observation set under a key is the one kept
RECURSIVE dateMap_FirstWins(_, _)
dateMap_FirstWins(observations, upto) ==
  IF upto = 0 THEN << >>
  ELSE LET obs == observations[upto]
           key == <<getMonth(obs.date), getDate(obs.date)>>
           before == dateMap_FirstWins(observations, upto - 1)
       IN  [k \in DOMAIN before \cup {key} |->
              IF k \in DOMAIN before THEN before[k]
              ELSE [date |-> obs.date, value |-> obs.value]]

RECURSIVE dateMap(_, _)
dateMap(observations, upto) ==
  IF upto = 0 THEN << >>
  ELSE LET obs == observations[upto]
           key == <<getMonth(obs.date), getDate(obs.date)>>
           before == dateMap(observations, upto - 1)
       IN  [k \in DOMAIN before \cup {key} |->
              IF k = key THEN [date |-> obs.date, value |-> obs.value] ELSE before[k]]

calculateYoYPercentageChange(observations) ==
  LET map == dateMap(observations, Len(observations)) IN
  [index \in 1..Len(observations) |->
    LET obs == observations[index]
        prevYear == getFullYear(obs.date) - 1
        date == setFullYear(obs.date, prevYear)
        prevYearKey == <<getMonth(date), getDate(date)>>
    IN  IF prevYearKey \notin DOMAIN map
           \/ IsNull(map[prevYearKey].value) \/ IsZero(map[prevYearKey].value)
        THEN [obs EXCEPT !.value = Null]
        ELSE [obs EXCEPT !.value =
                Mul(Div(Sub(IF ~IsNull(obs.value) THEN obs.value ELSE Int2Num(0),
                            map[prevYearKey].value), map[prevYearKey].value),
                    Int2Num(100))]]

calculateDifference_FromFirst(observations) ==
  [index \in 1..Len(observations) |->
    LET obs == observations[index] IN
    IF index = 1 THEN [obs EXCEPT !.value = Null]
    ELSE LET previousValue == observations[1].value IN
         IF IsNull(previousValue) \/ IsNull(obs.value)
         THEN [obs EXCEPT !.value = Null]
         ELSE [obs EXCEPT !.value = Sub(obs.value, previousValue)]]

calculateDifference(observations) ==
  [index \in 1..Len(observations) |->
    LET obs == observations[index] IN
    IF index = 1 THEN [obs EXCEPT !.value = Null]
    ELSE LET previousValue == observations[index - 1].value IN
         IF IsNull(previousValue) \/ IsNull(obs.value)
         THEN [obs EXCEPT !.value = Null]
         ELSE [obs EXCEPT !.value = Sub(obs.value, previousValue)]]

calculateLogTransform_NoGuard(observations) ==
  [index \in 1..Len(observations) |->
    LET obs == observations[index] IN
    IF IsNull(obs.value)
    THEN [obs EXCEPT !.value = Null]
    ELSE [obs EXCEPT !.value = Ln(obs.value)]]

calculateLogTransform(observations) ==
  [index \in 1..Len(observations) |->
    LET obs == observations[index] IN
    IF IsNull(obs.value) \/ obs.value.n <= 0
    THEN [obs EXCEPT !.value = Null]
    ELSE [obs EXCEPT !.value = Ln(obs.value)]]

NotNull(v) == ~IsNull(v)

\* observations.map(obs => obs.value)
ValuesOf(observations) == [i \in 1..Len(observations) |-> observations[i].value]

calculateMovingAverage_CountAll(observations, periods) ==
  [index \in 1..Len(observations) |->
    LET obs == observations[index] IN
    IF index - 1 < periods - 1 THEN [obs EXCEPT !.value = Null]
    ELSE LET window == [i \in 1..periods |-> observations[index - (i - 1)].value]
             valid == SelectSeq(window, NotNull)
         IN  IF Len(valid) = 0 THEN [obs EXCEPT !.value = Null]
             ELSE [obs EXCEPT !.value = Div(SumSeq(valid), Int2Num(periods))]]

calculateMovingAverage(observations, periods) ==
  [index \in 1..Len(observations) |->
    LET obs == observations[index] IN
    IF index - 1 < periods - 1 THEN [obs EXCEPT !.value = Null]
    ELSE LET window == [i \in 1..periods |-> observations[index - (i - 1)].value]
             valid == SelectSeq(window, NotNull)
             sum == SumSeq(valid)
             validValues == Len(valid)
         IN  IF validValues = 0 THEN [obs EXCEPT !.value = Null]
             ELSE [obs EXCEPT !.value = Div(sum, Int2Num(validValues))]]

\* the closure variable `sum` after the first `upto` observations
RECURSIVE runningSum(_, _)
runningSum(observations, upto) ==
  IF upto = 0 THEN Int2Num(0)
  ELSE IF IsNull(observations[upto].value) THEN runningSum(observations, upto - 1)
  ELSE Add(runningSum(observations, upto - 1), observations[upto].value)

calculateCumulativeSum_ZeroFill(observations) ==
  [index \in 1..Len(observations) |->
    [observations[index] EXCEPT !.value = runningSum(observations, index)]]

calculateCumulativeSum(observations) ==
  [index \in 1..Len(observations) |->
    LET obs == observations[index] IN
    IF IsNull(obs.value) THEN obs
    ELSE [obs EXCEPT !.value = runningSum(observations, index)]]

RECURSIVE MinSeq(_)
MinSeq(s) ==
  IF Len(s) = 1 THEN s[1]
  ELSE LET m == MinSeq(SubSeq(s, 1, Len(s) - 1))
       IN  IF Less(s[Len(s)], m) THEN s[Len(s)] ELSE m

RECURSIVE MaxSeq(_)
MaxSeq(s) ==
  IF Len(s) = 1 THEN s[1]
  ELSE LET m == MaxSeq(SubSeq(s, 1, Len(s) - 1))
       IN  IF Less(m, s[Len(s)]) THEN s[Len(s)] ELSE m

normalizeValues_NullAsZero(observations) ==
  LET values == [i \in 1..Len(observations) |->
                   IF IsNull(observations[i].value) THEN Int2Num(0)
                   ELSE observations[i].value] IN
  IF Len(values) = 0 THEN observations
  ELSE LET min == MinSeq(values)
           max == MaxSeq(values)
       IN  IF min = max
           THEN [index \in 1..Len(observations) |->
                  [observations[index] EXCEPT
                     !.value = IF ~IsNull(@) THEN Int2Num(1) ELSE Null]]
           ELSE [index \in 1..Len(observations) |->
                  LET obs == observations[index] IN
                  IF IsNull(obs.value) THEN obs
                  ELSE [obs EXCEPT !.value = Div(Sub(obs.value, min), Sub(max, min))]]

normalizeValues(observations) ==
  LET values == SelectSeq([i \in 1..Len(observations) |-> observations[i].value], NotNull) IN
  IF Len(values) = 0 THEN observations
  ELSE LET min == MinSeq(values)
           max == MaxSeq(values)
       IN  IF min = max
           THEN [index \in 1..Len(observations) |->
                  [observations[index] EXCEPT
                     !.value = IF ~IsNull(@) THEN Int2Num(1) ELSE Null]]
           ELSE [index \in 1..Len(observations) |->
                  LET obs == observations[index] IN
                  IF IsNull(obs.value) THEN obs
                  ELSE [obs EXCEPT !.value = Div(Sub(obs.value, min), Sub(max, min))]]

applyTransformation_DefaultDiff(observations, transformation) ==
  CASE transformation = "pct_change" -> calculatePercentageChange(observations)
    [] transformation = "pct_change_yoy" -> calculateYoYPercentageChange(observations)
    [] transformation = "diff" -> calculateDifference(observations)
    [] transformation = "log" -> calculateLogTransform(observations)
    [] transformation \in {"moving_avg", "3_period_moving_avg"} ->
         calculateMovingAverage(observations, 3)
    [] transformation = "6_period_moving_avg" -> calculateMovingAverage(observations, 6)
    [] transformation = "12_period_moving_avg" -> calculateMovingAverage(observations, 12)
    [] transformation = "4_week_moving_avg" -> calculateMovingAverage(observations, 4)
    [] transformation = "cumulative_sum" -> calculateCumulativeSum(observations)
    [] transformation = "normalize" -> normalizeValues(observations)
    [] OTHER -> calculateDifference(observations)

applyTransformation(observations, transformation) ==
  CASE transformation = "pct_change" -> calculatePercentageChange(observations)
    [] transformation = "pct_change_yoy" -> calculateYoYPercentageChange(observations)
    [] transformation = "diff" -> calculateDifference(observations)
    [] transformation = "log" -> calculateLogTransform(observations)
    [] transformation \in {"moving_avg", "3_period_moving_avg"} ->
         calculateMovingAverage(observations, 3)
    [] transformation = "6_period_moving_avg" -> calculateMovingAverage(observations, 6)
    [] transformation = "12_period_moving_avg" -> calculateMovingAverage(observations, 12)
    [] transformation = "4_week_moving_avg" -> calculateMovingAverage(observations, 4)
    [] transformation = "cumulative_sum" -> calculateCumulativeSum(observations)
    [] transformation = "normalize" -> normalizeValues(observations)
    [] OTHER -> observations

(***************************************************************************)
(* Range filter                                                            *)
(***************************************************************************)
\* an optional argument is <<>> when undefined and <<x>> when given
Undefined == <<>>
Given(x) == <<x>>
IsGiven(opt) == opt # <<>>

filterByDateRange_ExclusiveEnd(observations, startDate, endDate) ==
  SelectSeq(observations,
            LAMBDA obs :
              /\ ~(IsGiven(startDate) /\ obs.date < startDate[1])
              /\ ~(IsGiven(endDate) /\ obs.date >= endDate[1]))

filterByDateRange(observations, startDate, endDate) ==
  SelectSeq(observations,
            LAMBDA obs :
              /\ ~(IsGiven(startDate) /\ obs.date < startDate[1])
              /\ ~(IsGiven(endDate) /\ obs.date > endDate[1]))

(***************************************************************************)
(* Frequency resampler                                                     *)
(***************************************************************************)
\* the array in the opposite order
Reverse(s) == [i \in 1..Len(s) |-> s[Len(s) + 1 - i]]

\* Array.prototype.sort by new Date(date).getTime(): stable, ascending
\* x put into the sorted array `front`, after every element not later than x
insertByDate(front, x) ==
  LET k == Cardinality({j \in 1..Len(front) : front[j].date <= x.date})
  IN  [i \in 1..(Len(front) + 1) |->
         IF i <= k THEN front[i] ELSE IF i = k + 1 THEN x ELSE front[i - 1]]

RECURSIVE sortByDate(_)
sortByDate(s) ==
  IF Len(s) <= 1 THEN s
  ELSE insertByDate(sortByDate(SubSeq(s, 1, Len(s) - 1)), s[Len(s)])

\* the keys of a Map in insertion order, after set() on keys[1..upto]
RECURSIVE mapKeys(_, _)
mapKeys(keys, upto) ==
  IF upto = 0 THEN <<>>
  ELSE LET before == mapKeys(keys, upto - 1)
       IN  IF \E j \in 1..Len(before) : before[j] = keys[upto]
           THEN before ELSE Append(before, keys[upto])

\* the observations pushed under `key`, in the order they were pushed
groupOf(observations, keys, key) ==
  SelectSeq(observations,
            LAMBDA obs : \E i \in 1..Len(observations) :
                           observations[i] = obs /\ keys[i] = key)

\* the entries of the Map whose keys, in insertion order, are `order`
groupsInOrder(observations, keys, order) ==
  [g \in 1..Len(order) |->
     [key |-> order[g], observations |-> groupOf(observations, keys, order[g])]]

\* Map<string, Observation[]> filled by forEach(... get(key).push(obs)),
\* as the sequence of its entries in insertion order
groupBy(observations, keys) ==
  groupsInOrder(observations, keys, mapKeys(keys, Len(keys)))

reduceSorted_PeriodStart(groupObservations, method) ==
  [date |-> ((groupObservations[Len(groupObservations)].date \div 100) * 100) + 1,
   value |-> groupObservations[Len(groupObservations)].value]

\* one sorted bucket reduced to one observation
reduceSorted(groupObservations, method) ==
  CASE method = "first" ->
         [date |-> groupObservations[1].date, value |-> groupObservations[1].value]
    [] method = "last" ->
         [date |-> groupObservations[Len(groupObservations)].date,
          value |-> groupObservations[Len(groupObservations)].value]
    [] method = "avg" ->
         [date |-> groupObservations[Len(groupObservations)].date,
          value |-> IF \E i \in 1..Len(groupObservations) :
                          ~IsNull(groupObservations[i].value)
                    THEN Div(SumSeq(SelectSeq(ValuesOf(groupObservations), NotNull)),
                             Int2Num(Len(SelectSeq(ValuesOf(groupObservations), NotNull))))
                    ELSE Null]
    [] method = "sum" ->
         [date |-> groupObservations[Len(groupObservations)].date,
          value |-> SumSeq(SelectSeq(ValuesOf(groupObservations), NotNull))]

reduceGroup_Unsorted(groupObservations, method) ==
  reduceSorted(groupObservations, method)

\* the body of groupedData.forEach: the bucket is sorted in place, then reduced
reduceGroup(groupObservations, method) ==
  reduceSorted(sortByDate(groupObservations), method)

aggregateGroupedData_Descending(groupedData, method) ==
  Reverse(sortByDate([g \in 1..Len(groupedData) |->
                        reduceGroup(groupedData[g].observations, method)]))

aggregateGroupedData(groupedData, method) ==
  sortByDate([g \in 1..Len(groupedData) |->
                reduceGroup(groupedData[g].observations, method)])

\* the Map each aggregator fills before reducing
monthlyData(observations) ==
  groupBy(observations,
          [i \in 1..Len(observations) |->
             <<getFullYear(observations[i].date), getMonth(observations[i].date) + 1>>])

quarterlyData_OneBasedMonth(observations) ==
  groupBy(observations,
          [i \in 1..Len(observations) |->
             <<getFullYear(observations[i].date),
               ((getMonth(observations[i].date) + 1) \div 3) + 1>>])

quarterlyData(observations) ==
  groupBy(observations,
          [i \in 1..Len(observations) |->
             <<getFullYear(observations[i].date),
               (getMonth(observations[i].date) \div 3) + 1>>])

annualData(observations) ==
  groupBy(observations,
          [i \in 1..Len(observations) |-> <<getFullYear(observations[i].date)>>])

aggregateToMonthly(observations, method) ==
  sortByDate([g \in 1..Len(monthlyData(observations)) |->
                reduceGroup(monthlyData(observations)[g].observations, method)])

aggregateToQuarterly(observations, method) ==
  aggregateGroupedData(quarterlyData(observations), method)

aggregateMonthlyToQuarterly(observations, method) ==
  aggregateGroupedData(quarterlyData(observations), method)

aggregateMonthlyToAnnual(observations, method) ==
  aggregateGroupedData(annualData(observations), method)

aggregateQuarterlyToAnnual(observations, method) ==
  aggregateGroupedData(annualData(observations), method)

transformFrequency_DailyToAnnual(observations, targetFrequency, sourceFrequency) ==
  IF targetFrequency = sourceFrequency THEN observations
  ELSE CASE sourceFrequency = "D" /\ targetFrequency = "M" ->
              aggregateToMonthly(observations, "last")
         [] sourceFrequency = "D" /\ targetFrequency = "Q" ->
              aggregateToQuarterly(observations, "last")
         [] sourceFrequency = "M" /\ targetFrequency = "Q" ->
              aggregateMonthlyToQuarterly(observations, "last")
         [] sourceFrequency = "M" /\ targetFrequency = "A" ->
              aggregateMonthlyToAnnual(observations, "last")
         [] sourceFrequency = "Q" /\ targetFrequency = "A" ->
              aggregateQuarterlyToAnnual(observations, "last")
         [] sourceFrequency = "D" /\ targetFrequency = "A" ->
              aggregateMonthlyToAnnual(observations, "last")
         [] OTHER -> observations

transformFrequency(observations, targetFrequency, sourceFrequency) ==
  IF targetFrequency = sourceFrequency THEN observations
  ELSE CASE sourceFrequency = "D" /\ targetFrequency = "M" ->
              aggregateToMonthly(observations, "last")
         [] sourceFrequency = "D" /\ targetFrequency = "Q" ->
              aggregateToQuarterly(observations, "last")
         [] sourceFrequency = "M" /\ targetFrequency = "Q" ->
              aggregateMonthlyToQuarterly(observations, "last")
         [] sourceFrequency = "M" /\ targetFrequency = "A" ->
              aggregateMonthlyToAnnual(observations, "last")
         [] sourceFrequency = "Q" /\ targetFrequency = "A" ->
              aggregateQuarterlyToAnnual(observations, "last")
         [] OTHER -> observations

(***************************************************************************)
(* Unit converter                                                          *)
(***************************************************************************)
\* observations.map(obs => ({ ...obs, value: obs.value !== null ? obs.value * k : null }))
multiplyValues(observations, k) ==
  [i \in 1..Len(observations) |->
     [observations[i] EXCEPT
        !.value = IF ~IsNull(@) THEN RoundToPrecision(Mul(@, Int2Num(k))) ELSE Null]]

\* observations.map(obs => ({ ...obs, value: obs.value !== null ? obs.value / k : null }))
divideValues(observations, k) ==
  [i \in 1..Len(observations) |->
     [observations[i] EXCEPT
        !.value = IF ~IsNull(@) THEN RoundToPrecision(Div(@, Int2Num(k))) ELSE Null]]

transformUnits_MillionsToThousands(observations, sourceUnits, targetUnits) ==
  IF targetUnits = sourceUnits THEN observations
  ELSE CASE sourceUnits = "Billions of Dollars" /\ targetUnits = "Millions of Dollars" ->
              multiplyValues(observations, 1000)
         [] sourceUnits = "Millions of Dollars" /\ targetUnits = "Billions of Dollars" ->
              divideValues(observations, 1000)
         [] sourceUnits = "Thousands" /\ targetUnits = "Millions" ->
              divideValues(observations, 1000)
         [] sourceUnits = "Percent" /\ targetUnits = "Decimal" ->
              divideValues(observations, 100)
         [] sourceUnits = "Decimal" /\ targetUnits = "Percent" ->
              multiplyValues(observations, 100)
         [] sourceUnits = "Millions" /\ targetUnits = "Thousands" ->
              multiplyValues(observations, 1000)
         [] OTHER -> observations

transformUnits_Hundredfold(observations, sourceUnits, targetUnits) ==
  IF targetUnits = sourceUnits THEN observations
  ELSE CASE sourceUnits = "Billions of Dollars" /\ targetUnits = "Millions of Dollars" ->
              multiplyValues(observations, 1000)
         [] sourceUnits = "Millions of Dollars" /\ targetUnits = "Billions of Dollars" ->
              divideValues(observations, 100)
         [] sourceUnits = "Thousands" /\ targetUnits = "Millions" ->
              divideValues(observations, 1000)
         [] sourceUnits = "Percent" /\ targetUnits = "Decimal" ->
              divideValues(observations, 100)
         [] sourceUnits = "Decimal" /\ targetUnits = "Percent" ->
              multiplyValues(observations, 100)
         [] OTHER -> observations

transformUnits(observations, sourceUnits, targetUnits) ==
  IF targetUnits = sourceUnits THEN observations
  ELSE CASE sourceUnits = "Billions of Dollars" /\ targetUnits = "Millions of Dollars" ->
              multiplyValues(observations, 1000)
         [] sourceUnits = "Millions of Dollars" /\ targetUnits = "Billions of Dollars" ->
              divideValues(observations, 1000)
         [] sourceUnits = "Thousands" /\ targetUnits = "Millions" ->
              divideValues(observations, 1000)
         [] sourceUnits = "Percent" /\ targetUnits = "Decimal" ->
              divideValues(observations, 100)
         [] sourceUnits = "Decimal" /\ targetUnits = "Percent" ->
              multiplyValues(observations, 100)
         [] OTHER -> observations

(***************************************************************************)
(* Transformation pipeline.  Series objects live in `heap` (reference |->  *)
(* object) so that a write through a reference is visible to every holder  *)
(* of that reference.                                                      *)
(***************************************************************************)
\* a missing optional string property; `if (s)` is false for it and for ""
Absent == "<absent>"
Truthy(s) == s \notin {Absent, ""}

\* a new object on the heap
Alloc(h, object) ==
  LET ref == (CHOOSE r \in DOMAIN h : \A q \in DOMAIN h : q <= r) + 1
  IN  [heap |-> [r \in DOMAIN h \cup {ref} |-> IF r = ref THEN object ELSE h[r]],
       ref |-> ref]

JSONClone_Alias(h, data) == [heap |-> h, ref |-> data]

\* JSON.parse(JSON.stringify(data)): a new object with copies of every
\* property (strings, finite numbers, null and arrays of such survive)
JSONClone(h, data) == Alloc(h, h[data])

\* observations.slice(-n) for n > 0
sliceLast(observations, n) ==
  IF n >= Len(observations) THEN observations
  ELSE SubSeq(observations, Len(observations) - n + 1, Len(observations))

\* `if (params.limit && params.limit > 0)`
LimitApplies(limit) == IsGiven(limit) /\ limit[1] # 0 /\ limit[1] > 0

resampleStage(observations, data, params) ==
  IF Truthy(params.frequency)
  THEN transformFrequency(observations, params.frequency, data.frequency_short)
  ELSE observations

convertStage(observations, data, params) ==
  IF Truthy(params.units)
  THEN transformUnits(observations, data.units, params.units)
  ELSE observations

transformStage(observations, params) ==
  IF Truthy(params.transformation)
  THEN applyTransformation(observations, params.transformation)
  ELSE observations

filterStage(observations, params) ==
  IF IsGiven(params.start_date) \/ IsGiven(params.end_date)
  THEN filterByDateRange(observations, params.start_date, params.end_date)
  ELSE observations

limitStage(observations, params) ==
  IF LimitApplies(params.limit) THEN sliceLast(observations, params.limit[1])
  ELSE observations

pipelineStages_TransformFirst(observations, data, params) ==
  limitStage(
    filterStage(
      convertStage(
        resampleStage(transformStage(observations, params), data, params),
        data, params),
      params),
    params)

pipelineStages_LimitFirst(observations, data, params) ==
  filterStage(
    limitStage(
      transformStage(
        convertStage(resampleStage(observations, data, params), data, params),
        params),
      params),
    params)

\* the stages in the order the code runs them, each on `observations` as the
\* previous one left it
pipelineStages(observations, data, params) ==
  limitStage(
    filterStage(
      transformStage(
        convertStage(resampleStage(observations, data, params), data, params),
        params),
      params),
    params)

\* the metadata overrides written on the returned object
metadataOverrides(series, params) ==
  LET s1 == IF Truthy(params.transformation)
            THEN [series EXCEPT !.transformation = params.transformation] ELSE series
      s2 == IF Truthy(params.frequency)
            THEN [s1 EXCEPT !.frequency = params.frequency] ELSE s1
  IN  IF Truthy(params.units) THEN [s2 EXCEPT !.units = params.units] ELSE s2

processTimeSeriesData_NoEmptyGuard(h, data, params) ==
  LET clone == JSONClone(h, data)
      processedData == clone.ref
      observations == pipelineStages(clone.heap[processedData].observations,
                                     h[data], params)
      written == [clone.heap[processedData] EXCEPT !.observations = observations]
  IN  [heap |-> [clone.heap EXCEPT ![processedData] = metadataOverrides(written, params)],
       ref |-> processedData]

processTimeSeriesData(h, data, params) ==
  IF Len(h[data].observations) = 0
  THEN Alloc(h, [h[data] EXCEPT !.observations = <<>>])
  ELSE
  LET clone == JSONClone(h, data)
      processedData == clone.ref
      observations == pipelineStages(clone.heap[processedData].observations,
                                     h[data], params)
      written == [clone.heap[processedData] EXCEPT !.observations = observations]
  IN  [heap |-> [clone.heap EXCEPT ![processedData] = metadataOverrides(written, params)],
       ref |-> processedData]

(***************************************************************************)
(* Recession periods (src/src/services/fred.ts).  A period is               *)
(* [start, end]; the empty string of `end: ''` is the date 0, and         *)
(* currentRecession is <<>> when null and <<period>> otherwise.            *)
(***************************************************************************)
\* the loop of fetchRecessionDates after observations[1..upto]
RECURSIVE recessionScan_EndAtCurrent(_, _)
recessionScan_EndAtCurrent(observations, upto) ==
  IF upto = 0 THEN [recessions |-> <<>>, currentRecession |-> <<>>]
  ELSE LET before == recessionScan_EndAtCurrent(observations, upto - 1)
           obs == observations[upto]
       IN  IF obs.value = Int2Num(1)
           THEN IF before.currentRecession = <<>>
                THEN [before EXCEPT !.currentRecession = <<[start |-> obs.date, end |-> 0]>>]
                ELSE before
           ELSE IF before.currentRecession # <<>>
                THEN [recessions |->
                        Append(before.recessions,
                               [before.currentRecession[1] EXCEPT !.end = obs.date]),
                      currentRecession |-> <<>>]
                ELSE before

RECURSIVE recessionScan(_, _)
recessionScan(observations, upto) ==
  IF upto = 0 THEN [recessions |-> <<>>, currentRecession |-> <<>>]
  ELSE LET before == recessionScan(observations, upto - 1)
           obs == observations[upto]
       IN  IF obs.value = Int2Num(1)
           THEN IF before.currentRecession = <<>>
                THEN [before EXCEPT !.currentRecession = <<[start |-> obs.date, end |-> 0]>>]
                ELSE before
           ELSE IF before.currentRecession # <<>>
                THEN [recessions |->
                        Append(before.recessions,
                               [before.currentRecession[1] EXCEPT
                                  !.end = observations[upto - 1].date]),
                      currentRecession |-> <<>>]
                ELSE before

\* a recession still open after the loop ends at the last observation
closeRecession(scan, observations) ==
  IF scan.currentRecession # <<>>
  THEN Append(scan.recessions,
              [scan.currentRecession[1] EXCEPT !.end = observations[Len(observations)].date])
  ELSE scan.recessions

\* the periods fetchRecessionDates returns for the observations of USREC
recessionPeriods(observations) ==
  closeRecession(recessionScan(observations, Len(observations)), observations)

(***************************************************************************)
(* Inputs                                                                  *)
(***************************************************************************)
RECURSIVE SortedDates(_)
SortedDates(S) ==
  IF S = {} THEN <<>>
  ELSE LET m == CHOOSE x \in S : \A y \in S : x <= y
       IN  <<m>> \o SortedDates(S \ {m})

\* the observations dated `dates` (a set), ascending, with values vs[1], vs[2], ...
Observations(dates, vs) ==
  LET ds == SortedDates(dates)
  IN  [i \in 1..Len(ds) |-> [date |-> ds[i], value |-> vs[i]]]

\* upstream series: frequency code, its dates, and the values observed
DatePool(frequency_short) ==
  CASE frequency_short = "D" -> {20230105, 20230120, 20230403}
    [] frequency_short = "M" -> {20230101, 20240101, 20240201}
    [] frequency_short = "Q" -> {20230101, 20230401, 20240101}
    [] frequency_short = "W" -> {20230106, 20230113, 20230407}

FrequencyName(frequency_short) ==
  CASE frequency_short = "D" -> "Daily"
    [] frequency_short = "M" -> "Monthly"
    [] frequency_short = "Q" -> "Quarterly"
    [] frequency_short = "W" -> "Weekly"

SeriesValues == {Null, Int2Num(1), Int2Num(2)}

\* what fetchFredSeries returns: the series metadata and its observations
FredSeries(frequency_short, observations) ==
  [id |-> "S", units |-> "Billions of Dollars",
   frequency |-> FrequencyName(frequency_short), frequency_short |-> frequency_short,
   transformation |-> Absent, observations |-> observations]

Limits == {Undefined} \cup {Given(n) : n \in -1..MaxLimit}

Requests ==
  [frequency : {Absent, "M", "Q", "A"},
   units : {Absent, "Millions of Dollars", "Decimal"},
   transformation : {Absent, "pct_change", "pct_change_yoy", "log", "none", "sqrt"},
   start_date : {Undefined, Given(20230115)},
   end_date : {Undefined, Given(20240115)},
   limit : Limits]

NoRequest ==
  [frequency |-> Absent, units |-> Absent, transformation |-> Absent,
   start_date |-> Undefined, end_date |-> Undefined, limit |-> Undefined]

NotCalled == "<not called>"

PointValues == {Null} \cup {Int2Num(k) : k \in -1..3}
PointDates == {20230101, 20230301, 20240101, 20240229, 20240301}

Transformations ==
  {"pct_change", "pct_change_yoy", "diff", "log", "moving_avg", "3_period_moving_avg",
   "6_period_moving_avg", "12_period_moving_avg", "4_week_moving_avg",
   "cumulative_sum", "normalize", "none", "sqrt"}

\* the KV namespace, the upstream and the clock before any service call
ServiceIdle ==
  /\ kv = <<>>
  /\ upstream = <<>>
  /\ clock = 0
  /\ results = <<>>

(***************************************************************************)
(* Spec: a series is fetched, then processTimeSeriesData is called on it   *)
(***************************************************************************)
Init ==
  /\ \E f \in {"D", "M", "Q"} :
       \E dates \in SUBSET DatePool(f) :
         \E vs \in [1..Cardinality(dates) -> SeriesValues] :
           heap = [r \in {1} |-> FredSeries(f, Observations(dates, vs))]
  /\ dataRef = 1
  /\ request = NoRequest
  /\ resultRef = 0
  /\ inObs = <<>>
  /\ kind = NotCalled
  /\ args = <<>>
  /\ grouped = <<>>
  /\ ServiceIdle
  /\ outObs = <<>>

Process ==
  \E params \in Requests :
    /\ resultRef = 0
    /\ LET call == processTimeSeriesData(heap, dataRef, params)
       IN  /\ heap' = call.heap
           /\ resultRef' = call.ref
           /\ request' = params
           /\ UNCHANGED <<dataRef, inObs, kind, args, outObs, grouped,
                 kv, upstream, clock, results>>

Next == Process

Spec == Init /\ [][Next]_vars

(***************************************************************************)
(* Series service (src/unnamed/part_001).  `kv` is the KV namespace         *)
(* ECONOMIC_DATA: key |-> [value, expirationTtl]; a cache key, the string   *)
(* 'series:data:<id>' followed by ':<param>=<value>' for each truthy        *)
(* relevant parameter, is the record of the series id and those parameters. *)
(***************************************************************************)
CACHE_TTL == [DAILY |-> 3600, WEEKLY |-> 14400, MONTHLY |-> 86400, QUARTERLY |-> 172800]

generateCacheKey(seriesId, params) ==
  [prefix |-> "series:data:", seriesId |-> seriesId,
   frequency |-> IF Truthy(params.frequency) THEN params.frequency ELSE Absent,
   units |-> IF Truthy(params.units) THEN params.units ELSE Absent,
   transformation |-> IF Truthy(params.transformation) THEN params.transformation ELSE Absent,
   start_date |-> params.start_date,
   end_date |-> params.end_date]

\* frequency is a one-letter FRED code here, so charAt(0).toUpperCase() is the code
determineCacheTTL(frequency) ==
  IF ~Truthy(frequency) THEN CACHE_TTL.DAILY
  ELSE CASE frequency = "D" -> CACHE_TTL.DAILY
         [] frequency = "W" -> CACHE_TTL.WEEKLY
         [] frequency = "M" -> CACHE_TTL.MONTHLY
         [] frequency = "Q" -> CACHE_TTL.QUARTERLY
         [] OTHER -> CACHE_TTL.DAILY

\* limit: params.limit ? parseInt(params.limit) : undefined
typedParams(params) ==
  [params EXCEPT !.limit = IF IsGiven(@) /\ @[1] # 0 THEN @ ELSE Undefined]

\* the series processTimeSeriesData returns for a series value
processedSeries(data, params) ==
  LET call == processTimeSeriesData([r \in {1} |-> data], 1, params)
  IN  call.heap[call.ref]

\* kv after put(key, value, { expirationTtl: ttl })
setCache(store, key, value, ttl) ==
  [k \in DOMAIN store \cup {key} |->
     IF k = key THEN [value |-> value, expirationTtl |-> ttl] ELSE store[k]]

\* getSeriesData: [kv, result] after the call
getSeriesData(store, fredData, params) ==
  LET cacheKey == generateCacheKey(fredData.id, typedParams(params)) IN
  IF cacheKey \in DOMAIN store
  THEN [kv |-> store, result |-> store[cacheKey].value]
  ELSE LET processedData == processedSeries(fredData, typedParams(params))
           ttl == determineCacheTTL(fredData.frequency_short)
       IN  [kv |-> setCache(store, cacheKey, processedData, ttl),
            result |-> processedData]

\* the parameters of the calls made to the service
ServiceRequests ==
  {[NoRequest EXCEPT !.frequency = f, !.limit = l] :
     f \in {Absent, "M", "Q"}, l \in {Undefined} \cup {Given(n) : n \in 0..MaxLimit}}

(***************************************************************************)
(* SpecC: getSeriesData is called again and again on one upstream series;   *)
(* a cache entry may expire between calls                                   *)
(***************************************************************************)
InitC ==
  /\ heap = << >>
  /\ dataRef = 0
  /\ request = NoRequest
  /\ resultRef = 0
  /\ inObs = <<>>
  /\ kind = NotCalled
  /\ args = <<>>
  /\ grouped = <<>>
  /\ outObs = <<>>
  /\ kv = << >>
  /\ \E f \in {"D", "W", "M", "Q"} :
       \E vs \in [1..3 -> {Int2Num(1), Int2Num(2)}] :
         upstream = FredSeries(f, Observations(DatePool(f), vs))
  /\ clock = 0
  /\ results = <<>>

GetSeriesData ==
  \E params \in ServiceRequests :
    LET call == getSeriesData(kv, upstream, params) IN
    /\ kind' = "getSeriesData"
    /\ request' = params
    /\ kv' = call.kv
    /\ results' = call.result
    /\ UNCHANGED <<heap, dataRef, resultRef, inObs, args, grouped, outObs, upstream, clock>>

\* an entry reaches its expirationTtl
Expire ==
  \E key \in DOMAIN kv :
    /\ kv' = [k \in DOMAIN kv \ {key} |-> kv[k]]
    /\ UNCHANGED <<heap, dataRef, request, resultRef, inObs, kind, args, grouped, outObs,
                   upstream, clock, results>>

NextC == GetSeriesData \/ Expire

SpecC == InitC /\ [][NextC]_vars

(***************************************************************************)
(* Indicators service (src/src/services/fred.ts).  The upstream holds, per  *)
(* series, the time of its last publication (last_updated) and whether a    *)
(* fetch succeeds; a series is identified in the cache by that time.  Keys  *)
(* are <<prefix, name>>.                                                    *)
(***************************************************************************)
\* the loop of updateIndicators after indicators[1..upto]
RECURSIVE updateLoop(_, _, _, _, _)
updateLoop(store, fred, indicators, lastUpdate, upto) ==
  IF upto = 0 THEN [kv |-> store, updated |-> <<>>, failed |-> <<>>]
  ELSE LET before == updateLoop(store, fred, indicators, lastUpdate, upto - 1)
           seriesId == indicators[upto]
           fredData == fred[seriesId]
       IN  IF ~fredData.available
           THEN [before EXCEPT
                   !.failed = Append(@, [seriesId |-> seriesId, error |-> "fetch failed"])]
           ELSE IF IsGiven(lastUpdate) /\ fredData.last_updated <= lastUpdate[1]
           THEN before
           ELSE [before EXCEPT
                   !.kv = setCache(setCache(@, <<"series:data:", seriesId>>,
                                            [last_updated |-> fredData.last_updated], 86400),
                                   <<"series:latest:", seriesId>>,
                                   [last_updated |-> fredData.last_updated], 86400),
                   !.updated = Append(@, seriesId)]

\* getFromCache(key): <<>> for null, <<value>> otherwise
getFromCache(store, key) == IF key \in DOMAIN store THEN <<store[key].value>> ELSE <<>>

\* updateIndicators at time `now`: [kv, results]
updateIndicators(store, fred, indicators, frequency, now) ==
  LET lastUpdateKey == <<"last_update:", frequency>>
      lastUpdate == getFromCache(store, lastUpdateKey)
      loop == updateLoop(store, fred, indicators, lastUpdate, Len(indicators))
  IN  [kv |-> setCache(loop.kv, lastUpdateKey, now, 31536000),
       results |-> [frequency |-> frequency, updated |-> loop.updated,
                    failed |-> loop.failed, timestamp |-> now]]

\* two of the daily indicators
DAILY_INDICATORS == <<"GS10", "T10Y2Y">>

(***************************************************************************)
(* SpecS: scheduled runs of updateIndicators, while the upstream publishes  *)
(* and goes down and up.  Every publication and every run has its own time. *)
(***************************************************************************)
InitS ==
  /\ heap = << >>
  /\ dataRef = 0
  /\ request = NoRequest
  /\ resultRef = 0
  /\ inObs = <<>>
  /\ kind = NotCalled
  /\ args = <<>>
  /\ grouped = <<>>
  /\ outObs = <<>>
  /\ kv = << >>
  /\ upstream = [seriesId \in {"GS10", "T10Y2Y"} |-> [last_updated |-> 0, available |-> TRUE]]
  /\ clock = 1
  /\ results = [frequency |-> "daily", updated |-> <<>>, failed |-> <<>>, timestamp |-> 0]

UpdateFinancialIndicators ==
  /\ clock < MaxClock
  /\ LET run == updateIndicators(kv, upstream, DAILY_INDICATORS, "daily", clock)
     IN  /\ kv' = run.kv
         /\ results' = run.results
  /\ kind' = "updateIndicators"
  /\ clock' = clock + 1
  /\ UNCHANGED <<heap, dataRef, request, resultRef, inObs, args, grouped, outObs, upstream>>

Publish ==
  \E seriesId \in DOMAIN upstream :
    /\ clock < MaxClock
    /\ upstream' = [upstream EXCEPT ![seriesId].last_updated = clock]
    /\ clock' = clock + 1
    /\ UNCHANGED <<heap, dataRef, request, resultRef, inObs, kind, args, grouped, outObs,
                   kv, results>>

Outage ==
  \E seriesId \in DOMAIN upstream :
    /\ upstream[seriesId].available
    /\ upstream' = [upstream EXCEPT ![seriesId].available = FALSE]
    /\ UNCHANGED <<heap, dataRef, request, resultRef, inObs, kind, args, grouped, outObs,
                   kv, clock, results>>

Recover ==
  \E seriesId \in DOMAIN upstream :
    /\ ~upstream[seriesId].available
    /\ upstream' = [upstream EXCEPT ![seriesId].available = TRUE]
    /\ UNCHANGED <<heap, dataRef, request, resultRef, inObs, kind, args, grouped, outObs,
                   kv, clock, results>>

NextS == UpdateFinancialIndicators \/ Publish \/ Outage \/ Recover

SpecS == InitS /\ [][NextS]_vars

(***************************************************************************)
(* SpecT: applyTransformation is called on an observation sequence         *)
(***************************************************************************)
InitT ==
  /\ heap = << >>
  /\ dataRef = 0
  /\ request = NoRequest
  /\ resultRef = 0
  /\ \E dates \in SUBSET PointDates :
       /\ Cardinality(dates) <= MaxLen
       /\ \E vs \in [1..Cardinality(dates) -> PointValues] :
            inObs = Observations(dates, vs)
  /\ kind = NotCalled
  /\ args = <<>>
  /\ grouped = <<>>
  /\ ServiceIdle
  /\ outObs = <<>>

Transform ==
  \E transformation \in Transformations :
    /\ kind = NotCalled
    /\ kind' = transformation
    /\ outObs' = applyTransformation(inObs, transformation)
    /\ UNCHANGED <<heap, dataRef, request, resultRef, inObs, args, grouped,
                 kv, upstream, clock, results>>

NextT == Transform

SpecT == InitT /\ [][NextT]_vars

(***************************************************************************)
(* SpecMA: the moving averages on sequences long enough for every window   *)
(***************************************************************************)
\* the i-th month from January 2020, first of the month
MonthlyDate(i) == MkDate(2020 + ((i - 1) \div 12), ((i - 1) % 12) + 1, 1)

\* the widest moving-average window ('12_period_moving_avg')
LargestWindow == 12

MovingAverages ==
  {"moving_avg", "3_period_moving_avg", "6_period_moving_avg",
   "12_period_moving_avg", "4_week_moving_avg"}

InitMA ==
  /\ heap = << >>
  /\ dataRef = 0
  /\ request = NoRequest
  /\ resultRef = 0
  \* values 1 and 3 with gaps at the first RichPrefix places, value 1 with
  \* gaps after them
  /\ \E len \in LargestWindow..MaxLongLen :
       \E head \in [1..RichPrefix -> {Null, Int2Num(1), Int2Num(3)}] :
         \E rest \in [(RichPrefix + 1)..len -> {Null, Int2Num(1)}] :
           inObs = [i \in 1..len |->
                      [date |-> MonthlyDate(i),
                       value |-> IF i <= RichPrefix THEN head[i] ELSE rest[i]]]
  /\ kind = NotCalled
  /\ args = <<>>
  /\ grouped = <<>>
  /\ ServiceIdle
  /\ outObs = <<>>

TransformMA ==
  \E transformation \in MovingAverages :
    /\ kind = NotCalled
    /\ kind' = transformation
    /\ outObs' = applyTransformation(inObs, transformation)
    /\ UNCHANGED <<heap, dataRef, request, resultRef, inObs, args, grouped,
                 kv, upstream, clock, results>>

NextMA == TransformMA

SpecMA == InitMA /\ [][NextMA]_vars

(***************************************************************************)
(* SpecF: transformFrequency is called on a series' observations, which the *)
(* upstream returns ascending or, with sort_order=desc, descending          *)
(***************************************************************************)
\* frequency codes: the upstream's D, W, M, Q, A and a code nobody knows
FrequencyCodes == {"D", "W", "M", "Q", "A", "X"}

ResampleDates == {20230105, 20230120, 20230210, 20230403, 20240105}

InitF ==
  /\ heap = << >>
  /\ dataRef = 0
  /\ request = NoRequest
  /\ resultRef = 0
  /\ \E dates \in SUBSET ResampleDates :
       /\ Cardinality(dates) <= MaxLen
       /\ \E vs \in [1..Cardinality(dates) -> SeriesValues] :
            \E descending \in BOOLEAN :
              inObs = IF descending THEN Reverse(Observations(dates, vs))
                      ELSE Observations(dates, vs)
  /\ kind = NotCalled
  /\ \E sourceFrequency \in FrequencyCodes : args = <<sourceFrequency>>
  /\ grouped = <<>>
  /\ ServiceIdle
  /\ outObs = <<>>

Resample ==
  \E targetFrequency \in FrequencyCodes :
    /\ kind = NotCalled
    /\ kind' = "transformFrequency"
    /\ args' = <<args[1], targetFrequency>>
    /\ outObs' = transformFrequency(inObs, targetFrequency, args[1])
    /\ UNCHANGED <<heap, dataRef, request, resultRef, inObs, grouped,
                 kv, upstream, clock, results>>

NextF == Resample

SpecF == InitF /\ [][NextF]_vars

(***************************************************************************)
(* SpecD: filterByDateRange is called on an observation sequence           *)
(***************************************************************************)
\* startDate / endDate: undefined, an observation's date, a date between
\* observations
DateBounds ==
  {Undefined} \cup {Given(d) : d \in {20230105, 20230120, 20230301, 20240105}}

InitD ==
  /\ heap = << >>
  /\ dataRef = 0
  /\ request = NoRequest
  /\ resultRef = 0
  /\ \E dates \in SUBSET ResampleDates :
       /\ Cardinality(dates) <= MaxLen
       /\ \E vs \in [1..Cardinality(dates) -> SeriesValues] :
            \E descending \in BOOLEAN :
              inObs = IF descending THEN Reverse(Observations(dates, vs))
                      ELSE Observations(dates, vs)
  /\ kind = NotCalled
  /\ args = <<>>
  /\ grouped = <<>>
  /\ ServiceIdle
  /\ outObs = <<>>

Filter ==
  \E startDate \in DateBounds, endDate \in DateBounds :
    /\ kind = NotCalled
    /\ kind' = "filterByDateRange"
    /\ args' = <<startDate, endDate>>
    /\ outObs' = filterByDateRange(inObs, startDate, endDate)
    /\ UNCHANGED <<heap, dataRef, request, resultRef, inObs, grouped,
                 kv, upstream, clock, results>>

NextD == Filter

SpecD == InitD /\ [][NextD]_vars

(***************************************************************************)
(* SpecU: transformUnits is called on an observation sequence, and again   *)
(* on its result                                                           *)
(***************************************************************************)
Units ==
  {"Billions of Dollars", "Millions of Dollars", "Thousands", "Millions",
   "Percent", "Decimal"}

UnitValues == {Null, Int2Num(1), Int2Num(3), Int2Num(5)}

InitU ==
  /\ heap = << >>
  /\ dataRef = 0
  /\ request = NoRequest
  /\ resultRef = 0
  /\ \E len \in 0..MaxLen :
       \E vs \in [1..len -> UnitValues] :
         inObs = [i \in 1..len |-> [date |-> MkDate(2023, 1, i), value |-> vs[i]]]
  /\ kind = NotCalled
  /\ \E sourceUnits \in Units : args = <<sourceUnits>>
  /\ grouped = <<>>
  /\ ServiceIdle
  /\ outObs = inObs

\* args is the unit the observations started in followed by the targets of
\* the conversions made so far
Convert ==
  \E targetUnits \in Units :
    /\ Len(args) <= 2
    /\ kind' = "transformUnits"
    /\ args' = Append(args, targetUnits)
    /\ outObs' = transformUnits(outObs, args[Len(args)], targetUnits)
    /\ UNCHANGED <<heap, dataRef, request, resultRef, inObs, grouped,
                 kv, upstream, clock, results>>

NextU == Convert

SpecU == InitU /\ [][NextU]_vars

(***************************************************************************)
(* SpecA: an aggregator is called with a method; `grouped` is the Map it    *)
(* fills before reducing                                                   *)
(***************************************************************************)
Aggregators ==
  {"aggregateToMonthly", "aggregateToQuarterly", "aggregateMonthlyToQuarterly",
   "aggregateMonthlyToAnnual", "aggregateQuarterlyToAnnual"}

Methods == {"first", "last", "avg", "sum"}

\* dates on both sides of quarter, month and year boundaries
AggregateDates ==
  {20230331, 20230401, 20230630, 20230701, 20231215, 20231231, 20240101}

InitA ==
  /\ heap = << >>
  /\ dataRef = 0
  /\ request = NoRequest
  /\ resultRef = 0
  /\ \E dates \in SUBSET AggregateDates :
       /\ Cardinality(dates) <= MaxLen
       /\ \E vs \in [1..Cardinality(dates) -> SeriesValues] :
            \E descending \in BOOLEAN :
              inObs = IF descending THEN Reverse(Observations(dates, vs))
                      ELSE Observations(dates, vs)
  /\ kind = NotCalled
  /\ args = <<>>
  /\ grouped = <<>>
  /\ ServiceIdle
  /\ outObs = <<>>

Aggregate ==
  \E aggregator \in Aggregators, method \in Methods :
    /\ kind = NotCalled
    /\ kind' = aggregator
    /\ args' = <<method>>
    /\ grouped' =
         CASE aggregator = "aggregateToMonthly" -> monthlyData(inObs)
           [] aggregator \in {"aggregateToQuarterly", "aggregateMonthlyToQuarterly"} ->
                quarterlyData(inObs)
           [] aggregator \in {"aggregateMonthlyToAnnual", "aggregateQuarterlyToAnnual"} ->
                annualData(inObs)
    /\ outObs' =
         CASE aggregator = "aggregateToMonthly" -> aggregateToMonthly(inObs, method)
           [] aggregator = "aggregateToQuarterly" -> aggregateToQuarterly(inObs, method)
           [] aggregator = "aggregateMonthlyToQuarterly" ->
                aggregateMonthlyToQuarterly(inObs, method)
           [] aggregator = "aggregateMonthlyToAnnual" ->
                aggregateMonthlyToAnnual(inObs, method)
           [] aggregator = "aggregateQuarterlyToAnnual" ->
                aggregateQuarterlyToAnnual(inObs, method)
    /\ UNCHANGED <<heap, dataRef, request, resultRef, inObs,
                 kv, upstream, clock, results>>

NextA == Aggregate

SpecA == InitA /\ [][NextA]_vars

(***************************************************************************)
(* SpecR: fetchRecessionDates on the monthly recession indicator           *)
(***************************************************************************)
\* USREC is 0 or 1; a missing value and another number are included
RecessionValues == {Null, Int2Num(0), Int2Num(1), Int2Num(2)}

InitR ==
  /\ heap = << >>
  /\ dataRef = 0
  /\ request = NoRequest
  /\ resultRef = 0
  /\ \E len \in 0..MaxRecessionLen :
       \E vs \in [1..len -> RecessionValues] :
         inObs = [i \in 1..len |-> [date |-> MonthlyDate(i), value |-> vs[i]]]
  /\ kind = NotCalled
  /\ args = <<>>
  /\ grouped = <<>>
  /\ ServiceIdle
  /\ outObs = <<>>

FetchRecessionDates ==
  /\ kind = NotCalled
  /\ kind' = "fetchRecessionDates"
  /\ outObs' = recessionPeriods(inObs)
  /\ UNCHANGED <<heap, dataRef, request, resultRef, inObs, args, grouped,
                 kv, upstream, clock, results>>

NextR == FetchRecessionDates

SpecR == InitR /\ [][NextR]_vars

(***************************************************************************)
(* Properties                                                              *)
(***************************************************************************)
\* the sum of the present values among observations[lo..hi]
RECURSIVE PresentSum(_, _, _)
PresentSum(observations, lo, hi) ==
  IF hi < lo THEN Int2Num(0)
  ELSE IF IsNull(observations[hi].value) THEN PresentSum(observations, lo, hi - 1)
  ELSE Add(PresentSum(observations, lo, hi - 1), observations[hi].value)

\* (a - b) / b * 100 for numbers a and b, b not zero
PercentOf(a, b) == Num(100 * (a.n * b.d - b.n * a.d), a.d * b.n)

\* observations on consecutive days of January 2023 with the integer values vs
Fixture(vs) == [i \in 1..Len(vs) |-> [date |-> MkDate(2023, 1, i), value |-> vs[i]]]

\* C3: for pct_change and pct_change_yoy, an observation whose own value is
\* absent has an absent output.
C3_AbsentStaysAbsent ==
  kind \in {"pct_change", "pct_change_yoy"} =>
    \A i \in 1..Len(inObs) :
      i <= Len(outObs) /\ (IsNull(inObs[i].value) => IsNull(outObs[i].value))

\* C5: every point transform returns as many observations as it was given,
\* the i-th with the i-th input's date.
C5_LengthAndDates ==
  kind # NotCalled =>
    /\ Len(outObs) = Len(inObs)
    /\ \A i \in 1..Len(inObs) : outObs[i].date = inObs[i].date

C5_Witness ==
  /\ kind \in Transformations \ {"none", "sqrt"}
  /\ Len(inObs) = MaxLen
  /\ outObs # inObs

\* C6: pct_change: out[0] is absent; out[i] is absent when in[i-1] is absent
\* or zero; otherwise, with in[i] present, out[i] = (in[i]-in[i-1])/in[i-1]*100.
C6_PercentageChange ==
  /\ kind = "pct_change" =>
       /\ Len(outObs) = Len(inObs)
       /\ \A i \in 1..Len(inObs) :
            LET cur == inObs[i].value IN
            /\ i = 1 => IsNull(outObs[i].value)
            /\ i > 1 =>
                 LET prev == inObs[i - 1].value IN
                 /\ (IsNull(prev) \/ IsZero(prev)) => IsNull(outObs[i].value)
                 /\ (~IsNull(prev) /\ ~IsZero(prev) /\ ~IsNull(cur)) =>
                      outObs[i].value = PercentOf(cur, prev)
  /\ ValuesOf(calculatePercentageChange(Fixture(<<Int2Num(10), Int2Num(20), Int2Num(30)>>)))
       = <<Null, Int2Num(100), Int2Num(50)>>
  /\ ValuesOf(calculatePercentageChange(Fixture(<<Int2Num(0), Int2Num(5)>>)))
       = <<Null, Null>>

C6_Witness ==
  /\ kind = "pct_change"
  /\ \E i \in 2..Len(inObs) :
       /\ ~IsNull(inObs[i].value) /\ ~IsNull(inObs[i - 1].value)
       /\ ~IsZero(inObs[i - 1].value)
       /\ ~IsNull(outObs[i].value) /\ ~IsZero(outObs[i].value)
  /\ \E i \in 2..Len(inObs) : IsZero(inObs[i - 1].value) /\ IsNull(outObs[i].value)

\* C7: pct_change_yoy compares each observation with the observation dated
\* one calendar year earlier (year Y-1, same month and day); with no such
\* observation, or with its value absent or zero, the output is absent.
C7_YearOverYear ==
  kind = "pct_change_yoy" =>
    /\ Len(outObs) = Len(inObs)
    /\ \A i \in 1..Len(inObs) :
         LET d == inObs[i].date
             refs == {j \in 1..Len(inObs) :
                        inObs[j].date = MkDate(getFullYear(d) - 1, getMonth(d) + 1,
                                               getDate(d))}
         IN  /\ refs = {} => IsNull(outObs[i].value)
             /\ \A j \in refs :
                  /\ (IsNull(inObs[j].value) \/ IsZero(inObs[j].value)) =>
                       IsNull(outObs[i].value)
                  /\ (~IsNull(inObs[j].value) /\ ~IsZero(inObs[j].value)
                      /\ ~IsNull(inObs[i].value)) =>
                       outObs[i].value = PercentOf(inObs[i].value, inObs[j].value)

\* C8: diff: out[0] is absent; for i >= 1, out[i] = in[i] - in[i-1] when both
\* are present and absent when either is absent.
C8_Difference ==
  /\ kind = "diff" =>
       /\ Len(outObs) = Len(inObs)
       /\ \A i \in 1..Len(inObs) :
            LET cur == inObs[i].value IN
            /\ i = 1 => IsNull(outObs[i].value)
            /\ i > 1 =>
                 LET prev == inObs[i - 1].value IN
                 IF IsNull(cur) \/ IsNull(prev) THEN IsNull(outObs[i].value)
                 ELSE outObs[i].value = Num(cur.n * prev.d - prev.n * cur.d, cur.d * prev.d)
  /\ ValuesOf(calculateDifference(Fixture(<<Int2Num(10), Int2Num(20), Int2Num(30)>>)))
       = <<Null, Int2Num(10), Int2Num(10)>>

C8_Witness ==
  /\ kind = "diff"
  /\ Len(inObs) = MaxLen
  /\ \A i \in 1..Len(inObs) : ~IsNull(inObs[i].value)
  /\ inObs[1].value # inObs[2].value
  /\ ~IsNull(outObs[MaxLen].value)

\* C10: cumulative_sum: where the input value is present the output is the
\* sum of the present input values up to and including that position; where
\* it is absent the output is absent and the running total is unchanged.
C10_CumulativeSum ==
  kind = "cumulative_sum" =>
    /\ Len(outObs) = Len(inObs)
    /\ \A i \in 1..Len(inObs) :
         IF IsNull(inObs[i].value)
         THEN /\ IsNull(outObs[i].value)
              /\ PresentSum(inObs, 1, i) = PresentSum(inObs, 1, i - 1)
         ELSE outObs[i].value = PresentSum(inObs, 1, i)

C10_Witness ==
  /\ kind = "cumulative_sum"
  /\ \E i \in 2..(Len(inObs) - 1) :
       /\ IsNull(inObs[i].value)
       /\ ~IsNull(inObs[i - 1].value) /\ ~IsZero(inObs[i - 1].value)
       /\ ~IsNull(inObs[i + 1].value) /\ ~IsZero(inObs[i + 1].value)
       /\ outObs[i + 1].value = Add(inObs[i - 1].value, inObs[i + 1].value)

\* the window of each moving-average kind
Periods(transformation) ==
  CASE transformation \in {"moving_avg", "3_period_moving_avg"} -> 3
    [] transformation = "6_period_moving_avg" -> 6
    [] transformation = "12_period_moving_avg" -> 12
    [] transformation = "4_week_moving_avg" -> 4

\* C9: moving average with window p: out[i] is absent for i < p-1; for
\* i >= p-1 it is the mean of the present values among in[i-p+1..i], and
\* absent exactly when that window holds no present value.
C9_MovingAverage ==
  /\ kind \in MovingAverages =>
       LET p == Periods(kind) IN
       /\ Len(outObs) = Len(inObs)
       /\ \A i \in 1..Len(inObs) :
            LET present == {j \in (i - p + 1)..i : j >= 1 /\ ~IsNull(inObs[j].value)}
                total == PresentSum(inObs, i - p + 1, i)
            IN  IF i < p \/ present = {}
                THEN IsNull(outObs[i].value)
                ELSE outObs[i].value = Num(total.n, total.d * Cardinality(present))
  /\ calculateMovingAverage(Fixture(<<Int2Num(1), Null, Int2Num(3), Int2Num(4)>>), 3)[3].value
       = Int2Num(2)

C9_Witness ==
  /\ kind = "12_period_moving_avg"
  /\ Len(inObs) >= LargestWindow
  /\ \E j \in 1..LargestWindow : IsNull(inObs[j].value)
  /\ inObs[1].value = Int2Num(3)
  /\ ~IsNull(outObs[LargestWindow].value)
  /\ outObs[LargestWindow].value # Int2Num(1)

\* C1: the stages run in the order resample, unit-convert, point-transform,
\* date-range filter, limit, each on the previous stage's output, and a stage
\* whose parameter is absent is skipped; with a target frequency and
\* pct_change_yoy the result is pct_change_yoy(resample(observations)).
C1_StageOrder ==
  (resultRef # 0 /\ heap[dataRef].observations # <<>>) =>
    LET data == heap[dataRef]
        resample(o) == IF Truthy(request.frequency)
                       THEN transformFrequency(o, request.frequency, data.frequency_short)
                       ELSE o
        convert(o) == IF Truthy(request.units)
                      THEN transformUnits(o, data.units, request.units) ELSE o
        transform(o) == IF Truthy(request.transformation)
                        THEN applyTransformation(o, request.transformation) ELSE o
        filter(o) == IF IsGiven(request.start_date) \/ IsGiven(request.end_date)
                     THEN filterByDateRange(o, request.start_date, request.end_date)
                     ELSE o
        limit(o) == IF IsGiven(request.limit) /\ request.limit[1] > 0
                    THEN [i \in 1..(IF request.limit[1] < Len(o) THEN request.limit[1]
                                    ELSE Len(o)) |->
                            o[Len(o) - (IF request.limit[1] < Len(o) THEN request.limit[1]
                                        ELSE Len(o)) + i]]
                    ELSE o
    IN  /\ heap[resultRef].observations =
             limit(filter(transform(convert(resample(data.observations)))))
        /\ (/\ Truthy(request.frequency)
            /\ request.transformation = "pct_change_yoy"
            /\ ~Truthy(request.units)
            /\ ~IsGiven(request.start_date) /\ ~IsGiven(request.end_date)
            /\ ~IsGiven(request.limit)) =>
             heap[resultRef].observations =
               calculateYoYPercentageChange(
                 transformFrequency(data.observations, request.frequency,
                                    data.frequency_short))

\* a monthly series, resampled to quarters and transformed by pct_change_yoy,
\* whose result is not what transforming first and resampling second gives
C1_OrderMatters ==
  /\ resultRef # 0
  /\ heap[dataRef].frequency_short = "M"
  /\ \A i \in 1..Len(heap[dataRef].observations) :
       ~IsNull(heap[dataRef].observations[i].value)
  /\ request = [NoRequest EXCEPT !.frequency = "Q", !.transformation = "pct_change_yoy"]
  /\ heap[resultRef].observations #
       transformFrequency(calculateYoYPercentageChange(heap[dataRef].observations),
                          "Q", "M")

\* C2: the frequency field of the result differs from the upstream one only
\* if resampling ran, and the units field only if a unit conversion ran.
C2_MetadataReflectsStages ==
  (resultRef # 0 /\ heap[dataRef].observations # <<>>) =>
    LET data == heap[dataRef]
        resampled ==
          /\ Truthy(request.frequency)
          /\ request.frequency # data.frequency_short
          /\ <<data.frequency_short, request.frequency>> \in
               {<<"D", "M">>, <<"D", "Q">>, <<"M", "Q">>, <<"M", "A">>, <<"Q", "A">>}
        converted ==
          /\ Truthy(request.units)
          /\ request.units # data.units
          /\ <<data.units, request.units>> \in
               {<<"Billions of Dollars", "Millions of Dollars">>,
                <<"Millions of Dollars", "Billions of Dollars">>,
                <<"Thousands", "Millions">>,
                <<"Percent", "Decimal">>, <<"Decimal", "Percent">>}
    IN  /\ heap[resultRef].frequency # data.frequency => resampled
        /\ heap[resultRef].units # data.units => converted
        /\ ~resampled => heap[resultRef].frequency = data.frequency
        /\ ~converted => heap[resultRef].units = data.units

\* C4: processTimeSeriesData leaves the series it is given as it was (the
\* object, its observations, every date and value) and returns another object.
C4_InputNotMutated ==
  [][/\ dataRef' = dataRef
     /\ heap'[dataRef] = heap[dataRef]
     /\ resultRef' # dataRef
     /\ resultRef' \in DOMAIN heap']_vars

C4_Witness ==
  /\ resultRef # 0
  /\ Truthy(request.frequency) /\ Truthy(request.units) /\ Truthy(request.transformation)
  /\ IsGiven(request.start_date) /\ IsGiven(request.end_date) /\ IsGiven(request.limit)
  /\ Len(heap[dataRef].observations) = Cardinality(DatePool("D"))
  /\ heap[dataRef].transformation = Absent
  /\ heap[resultRef].observations # heap[dataRef].observations
  /\ heap[resultRef].observations # <<>>
  /\ heap[resultRef].frequency # heap[dataRef].frequency
  /\ heap[resultRef].units # heap[dataRef].units

\* C11: normalize: with min and max taken over the present values, a present
\* value v maps to (v - min)/(max - min), which lies in [0,1], is 0 at the
\* minimum and 1 at the maximum; absent stays absent; when min = max every
\* present value maps to 1; with no present value the sequence is unchanged.
C11_Normalize ==
  /\ kind = "normalize" =>
       LET present == {i \in 1..Len(inObs) : ~IsNull(inObs[i].value)} IN
       IF present = {} THEN outObs = inObs
       ELSE LET lo == inObs[CHOOSE i \in present :
                              \A j \in present : ~Less(inObs[j].value, inObs[i].value)].value
                hi == inObs[CHOOSE i \in present :
                              \A j \in present : ~Less(inObs[i].value, inObs[j].value)].value
            IN  /\ Len(outObs) = Len(inObs)
                /\ \A i \in 1..Len(inObs) :
                     LET v == inObs[i].value
                         out == outObs[i].value
                     IN  /\ outObs[i].date = inObs[i].date
                         /\ IsNull(v) => IsNull(out)
                         /\ (~IsNull(v) /\ lo = hi) => out = Int2Num(1)
                         /\ (~IsNull(v) /\ lo # hi) =>
                              /\ out.t = "num"
                              /\ out.n * (hi.n * lo.d - lo.n * hi.d) * v.d * lo.d
                                   = out.d * (v.n * lo.d - lo.n * v.d) * hi.d * lo.d
                              /\ ~Less(out, Int2Num(0)) /\ ~Less(Int2Num(1), out)
                              /\ v = lo => out = Int2Num(0)
                              /\ v = hi => out = Int2Num(1)
  /\ ValuesOf(normalizeValues(Fixture(<<Int2Num(5), Int2Num(5), Int2Num(5)>>)))
       = <<Int2Num(1), Int2Num(1), Int2Num(1)>>
  /\ normalizeValues(Fixture(<<Null, Null, Null>>)) = Fixture(<<Null, Null, Null>>)

C11_Witness ==
  /\ kind = "normalize"
  /\ Len(inObs) = MaxLen
  /\ \E i, j, k \in 1..Len(inObs) :
       /\ IsNull(inObs[i].value) /\ IsNull(outObs[i].value)
       /\ Less(inObs[j].value, Int2Num(0)) /\ outObs[j].value = Int2Num(0)
       /\ Less(Int2Num(0), inObs[k].value) /\ outObs[k].value = Int2Num(1)

\* C12: a transformation of 'none' or of an unrecognized kind returns the
\* observations unchanged, and processTimeSeriesData on a non-empty series
\* with a request that sets no field returns a series equal to the input.
C12_SkippedStagesAreIdentity ==
  /\ \A transformation \in {"none", "sqrt"} :
       applyTransformation(heap[dataRef].observations, transformation)
         = heap[dataRef].observations
  /\ (resultRef # 0 /\ Len(heap[dataRef].observations) > 0) =>
       /\ request = NoRequest => heap[resultRef] = heap[dataRef]
       /\ request \in {[NoRequest EXCEPT !.transformation = "none"],
                        [NoRequest EXCEPT !.transformation = "sqrt"]} =>
            heap[resultRef].observations = heap[dataRef].observations

C12_Witness ==
  /\ resultRef # 0
  /\ request = [NoRequest EXCEPT !.transformation = "sqrt"]
  /\ Len(heap[dataRef].observations) = 3
  /\ \E i \in 1..3 : ~IsNull(heap[dataRef].observations[i].value)
  /\ heap[resultRef].observations = heap[dataRef].observations

\* the source->target pairs that resample
SupportedPairs ==
  {<<"D", "M">>, <<"D", "Q">>, <<"M", "Q">>, <<"M", "A">>, <<"Q", "A">>}

\* the calendar bucket of a date at a target frequency
Bucket(date, targetFrequency) ==
  CASE targetFrequency = "M" -> <<date \div 10000, (date \div 100) % 100>>
    [] targetFrequency = "Q" -> <<date \div 10000, ((((date \div 100) % 100) - 1) \div 3) + 1>>
    [] targetFrequency = "A" -> <<date \div 10000>>

\* C13: for a supported pair the resampler returns exactly one observation
\* per calendar bucket occurring in the input, carrying the date and value of
\* the chronologically last observation of the bucket, ascending by date.
C13_OnePerBucket ==
  /\ (kind = "transformFrequency" /\ args \in SupportedPairs) =>
       LET buckets == {Bucket(inObs[i].date, args[2]) : i \in 1..Len(inObs)} IN
       /\ Len(outObs) = Cardinality(buckets)
       /\ \A b \in buckets :
            LET members == {i \in 1..Len(inObs) : Bucket(inObs[i].date, args[2]) = b}
                last == CHOOSE i \in members :
                          \A j \in members : inObs[j].date <= inObs[i].date
            IN  \E k \in 1..Len(outObs) :
                  outObs[k] = [date |-> inObs[last].date, value |-> inObs[last].value]
       /\ \A k \in 1..(Len(outObs) - 1) : outObs[k].date < outObs[k + 1].date
  /\ transformFrequency(<<[date |-> 20230105, value |-> Int2Num(1)],
                          [date |-> 20230120, value |-> Int2Num(2)],
                          [date |-> 20230210, value |-> Int2Num(3)]>>, "M", "D")
       = <<[date |-> 20230120, value |-> Int2Num(2)],
           [date |-> 20230210, value |-> Int2Num(3)]>>

C13_Witness ==
  /\ kind = "transformFrequency"
  /\ args = <<"D", "Q">>
  /\ Len(inObs) = 3
  /\ inObs[1].date > inObs[2].date
  /\ Len(outObs) = 2
  /\ outObs[1] = inObs[2]
  /\ ~IsNull(outObs[1].value)
  /\ IsNull(outObs[2].value)

\* C14: transformFrequency resamples only for the supported pairs; for any
\* other pair, and when source equals target, it returns its input unchanged.
C14_UnsupportedPassthrough ==
  (kind = "transformFrequency" /\ args \notin SupportedPairs) => outObs = inObs

C14_Witness ==
  /\ kind = "transformFrequency"
  /\ args \in {<<"D", "A">>, <<"W", "M">>, <<"Q", "M">>, <<"X", "M">>}
  /\ Len(inObs) = 3
  /\ Bucket(inObs[1].date, "A") = Bucket(inObs[2].date, "A")
  /\ ~IsNull(inObs[1].value)
  /\ outObs = inObs

\* C15: every date of the returned observations is the date of an input
\* observation, and when resampling ran it is the date of the last input
\* observation of its bucket.
C15_NoFabricatedDates ==
  resultRef # 0 =>
    LET in == heap[dataRef].observations
        out == heap[resultRef].observations
        resampled == /\ Truthy(request.frequency)
                     /\ <<heap[dataRef].frequency_short, request.frequency>> \in SupportedPairs
    IN  \A k \in 1..Len(out) :
          /\ \E i \in 1..Len(in) : in[i].date = out[k].date
          /\ resampled =>
               \A i \in 1..Len(in) :
                 Bucket(in[i].date, request.frequency) = Bucket(out[k].date, request.frequency)
                   => in[i].date <= out[k].date

C15_Witness ==
  /\ resultRef # 0
  /\ heap[dataRef].frequency_short = "D"
  /\ request.frequency = "M"
  /\ Len(heap[dataRef].observations) = 3
  /\ Len(heap[resultRef].observations) = 2
  /\ heap[resultRef].observations[1].date = heap[dataRef].observations[2].date

\* C16: with the input in ascending date order, the returned observations
\* are in ascending date order for every request.
C16_AscendingOrder ==
  resultRef # 0 =>
    LET in == heap[dataRef].observations
        out == heap[resultRef].observations
    IN  (\A i \in 1..(Len(in) - 1) : in[i].date < in[i + 1].date) =>
          \A k \in 1..(Len(out) - 1) : out[k].date < out[k + 1].date

C16_Witness ==
  /\ resultRef # 0
  /\ heap[dataRef].frequency_short = "M"
  /\ request.frequency = "Q"
  /\ Truthy(request.units) /\ Truthy(request.transformation)
  /\ LimitApplies(request.limit)
  /\ Len(heap[dataRef].observations) = 3
  /\ Len(heap[resultRef].observations) = 2

\* C20: the limit is applied after the date-range filter: with a positive
\* limit n and k observations inside the date bounds the result is the last
\* min(n, k) of those k; an absent, zero or negative limit truncates nothing.
C20_LimitAfterFilter ==
  (resultRef # 0 /\ Len(heap[dataRef].observations) > 0 /\ ~Truthy(request.frequency)) =>
    LET in == heap[dataRef].observations
        out == heap[resultRef].observations
        kept == {i \in 1..Len(in) :
                   /\ IsGiven(request.start_date) => request.start_date[1] <= in[i].date
                   /\ IsGiven(request.end_date) => in[i].date <= request.end_date[1]}
        k == Cardinality(kept)
        n == IF IsGiven(request.limit) /\ request.limit[1] > 0 /\ request.limit[1] < k
             THEN request.limit[1] ELSE k
        nth(j) == CHOOSE i \in kept : Cardinality({x \in kept : x <= i}) = k - n + j
    IN  /\ Len(out) = n
        /\ \A j \in 1..n :
             /\ out[j].date = in[nth(j)].date
             /\ (~Truthy(request.units) /\ ~Truthy(request.transformation)) =>
                  out[j] = in[nth(j)]

C20_Witness ==
  /\ resultRef # 0
  /\ ~Truthy(request.frequency)
  /\ IsGiven(request.end_date)
  /\ request.limit = Given(1)
  /\ Len(heap[dataRef].observations) = 3
  /\ heap[dataRef].observations[3].date > request.end_date[1]
  /\ Cardinality({i \in 1..3 :
                    /\ IsGiven(request.start_date) =>
                         request.start_date[1] <= heap[dataRef].observations[i].date
                    /\ heap[dataRef].observations[i].date <= request.end_date[1]}) = 2
  /\ Len(heap[resultRef].observations) = 1
  /\ heap[resultRef].observations[1].date = heap[dataRef].observations[2].date

\* C19: filterByDateRange returns exactly the observations dated d with
\* start <= d (start given) and d <= end (end given), bounds inclusive, in
\* their original relative order; start > end yields the empty sequence.
C19_InclusiveRange ==
  kind = "filterByDateRange" =>
    LET startDate == args[1]
        endDate == args[2]
        kept == {i \in 1..Len(inObs) :
                   /\ IsGiven(startDate) => startDate[1] <= inObs[i].date
                   /\ IsGiven(endDate) => inObs[i].date <= endDate[1]}
        nth(j) == CHOOSE i \in kept : Cardinality({x \in kept : x <= i}) = j
    IN  /\ Len(outObs) = Cardinality(kept)
        /\ \A j \in 1..Len(outObs) : outObs[j] = inObs[nth(j)]
        /\ (IsGiven(startDate) /\ IsGiven(endDate) /\ startDate[1] > endDate[1]) =>
             outObs = <<>>

C19_Witness ==
  /\ kind = "filterByDateRange"
  /\ IsGiven(args[1]) /\ IsGiven(args[2])
  /\ Len(inObs) = 3
  /\ Len(outObs) = 2
  /\ inObs[1].date > inObs[2].date
  /\ outObs[1].date = args[2][1]
  /\ outObs[2].date = args[1][1]

\* |a - b| <= |b| / 2^bits, for numbers a and b
Within(a, b, bits) ==
  LET diff == Sub(a, b)
  IN  Abs(diff.n) * b.d * Pow2(bits) <= Abs(b.n) * diff.d

\* the factor of the conversion table: <<"mul", k>>, <<"div", k>> or <<"same">>
TableFactor(sourceUnits, targetUnits) ==
  CASE <<sourceUnits, targetUnits>> = <<"Billions of Dollars", "Millions of Dollars">> -> <<"mul", 1000>>
    [] <<sourceUnits, targetUnits>> = <<"Millions of Dollars", "Billions of Dollars">> -> <<"div", 1000>>
    [] <<sourceUnits, targetUnits>> = <<"Thousands", "Millions">> -> <<"div", 1000>>
    [] <<sourceUnits, targetUnits>> = <<"Percent", "Decimal">> -> <<"div", 100>>
    [] <<sourceUnits, targetUnits>> = <<"Decimal", "Percent">> -> <<"mul", 100>>
    [] OTHER -> <<"same">>

C21_EmptyInput ==
  (resultRef # 0 /\ Len(heap[dataRef].observations) = 0) =>
    /\ heap[resultRef].observations = <<>>
    /\ \A field \in DOMAIN heap[dataRef] \ {"observations"} :
         heap[resultRef][field] = heap[dataRef][field]
    /\ heap[resultRef].transformation = Absent

C21_Witness ==
  /\ resultRef # 0
  /\ Len(heap[dataRef].observations) = 0
  /\ heap[dataRef].frequency_short = "D"
  /\ request.frequency = "M"
  /\ request.units = "Millions of Dollars"
  /\ request.transformation = "pct_change"
  /\ IsGiven(request.start_date) /\ LimitApplies(request.limit)
  /\ heap[resultRef].observations = <<>>

\* month and day of a date, as one number MMDD
MonthDay(date) == date % 10000

\* the last observation in input order with the month and day of observations[i]
LastSameMonthDay(observations, i) ==
  CHOOSE j \in 1..Len(observations) :
    /\ MonthDay(observations[j].date) = MonthDay(observations[i].date)
    /\ \A k \in 1..Len(observations) :
         MonthDay(observations[k].date) = MonthDay(observations[i].date) => k <= j

\* C22: on a non-empty sequence the transform completes with one output per
\* input; a position whose arithmetic is undefined (previous value zero in
\* pct_change, reference value zero in pct_change_yoy, input absent or <= 0
\* in log) is absent, and a position whose operands are present and valid is
\* still computed.
C22_DegenerateDegradesToAbsent ==
  (kind \in Transformations /\ Len(inObs) > 0) =>
    /\ Len(outObs) = Len(inObs)
    /\ \A i \in 1..Len(inObs) :
         LET v == inObs[i].value
             out == outObs[i].value
         IN  /\ (kind = "pct_change" /\ i > 1) =>
                  LET prev == inObs[i - 1].value IN
                  /\ IsZero(prev) => IsNull(out)
                  /\ (~IsNull(prev) /\ ~IsZero(prev) /\ ~IsNull(v)) =>
                       out = PercentOf(v, prev)
             /\ (kind = "pct_change_yoy" /\ MonthDay(inObs[i].date) # 229) =>
                  LET r == inObs[LastSameMonthDay(inObs, i)].value IN
                  /\ IsZero(r) => IsNull(out)
                  /\ (~IsNull(r) /\ ~IsZero(r) /\ ~IsNull(v)) => out = PercentOf(v, r)
             /\ kind = "log" =>
                  IF IsNull(v) \/ ~Less(Int2Num(0), v) THEN IsNull(out)
                  ELSE out = Ln(v) /\ ~IsNull(out)

C22_Witness ==
  /\ kind = "log"
  /\ Len(inObs) = MaxLen
  /\ IsZero(inObs[1].value) /\ IsNull(outObs[1].value)
  /\ Less(inObs[2].value, Int2Num(0)) /\ IsNull(outObs[2].value)
  /\ Less(Int2Num(1), inObs[MaxLen].value) /\ ~IsNull(outObs[MaxLen].value)

C26_LeapDayAbsent ==
  kind = "pct_change_yoy" =>
    \A i \in 1..Len(inObs) :
      MonthDay(inObs[i].date) = 229 => (i <= Len(outObs) /\ IsNull(outObs[i].value))

\* the target granularity of an aggregator
Granularity(aggregator) ==
  CASE aggregator = "aggregateToMonthly" -> "M"
    [] aggregator \in {"aggregateToQuarterly", "aggregateMonthlyToQuarterly"} -> "Q"
    [] aggregator \in {"aggregateMonthlyToAnnual", "aggregateQuarterlyToAnnual"} -> "A"

\* C27: with method avg or sum each bucket is reduced over its present
\* values only (avg their mean, sum their total), a bucket with no present
\* value yields absent, and the date is that of the bucket's last
\* observation.
C27_AvgSumOverPresent ==
  (kind \in Aggregators /\ args[1] \in {"avg", "sum"}) =>
    \A i \in 1..Len(inObs) :
      LET b == Bucket(inObs[i].date, Granularity(kind))
          members == {j \in 1..Len(inObs) : Bucket(inObs[j].date, Granularity(kind)) = b}
          present == {j \in members : ~IsNull(inObs[j].value)}
          lastDate == CHOOSE d \in {inObs[j].date : j \in members} :
                        \A j \in members : inObs[j].date <= d
          total == SumSeq([k \in 1..Cardinality(present) |->
                             inObs[CHOOSE j \in present :
                                     Cardinality({x \in present : x <= j}) = k].value])
      IN  \E k \in 1..Len(outObs) :
            /\ outObs[k].date = lastDate
            /\ present = {} => IsNull(outObs[k].value)
            /\ (present # {} /\ args[1] = "sum") => outObs[k].value = total
            /\ (present # {} /\ args[1] = "avg") =>
                 outObs[k].value = Num(total.n, total.d * Cardinality(present))

\* C28: two observations are in the same bucket iff they have the same year
\* and (quarter buckets) months in the same group of Jan-Mar, Apr-Jun,
\* Jul-Sep, Oct-Dec, (month buckets) the same month; every observation is in
\* exactly one bucket.
C28_BucketsPartition ==
  kind \in Aggregators =>
    LET InBucket(i, g) == \E p \in 1..Len(grouped[g].observations) :
                            grouped[g].observations[p] = inObs[i]
        Year(i) == inObs[i].date \div 10000
        Month(i) == (inObs[i].date \div 100) % 100
        QuarterMonths == {{1, 2, 3}, {4, 5, 6}, {7, 8, 9}, {10, 11, 12}}
        SamePeriod(i, j) ==
          /\ Year(i) = Year(j)
          /\ Granularity(kind) = "M" => Month(i) = Month(j)
          /\ Granularity(kind) = "Q" =>
               \E q \in QuarterMonths : Month(i) \in q /\ Month(j) \in q
    IN  /\ \A i \in 1..Len(inObs) :
             Cardinality({g \in 1..Len(grouped) : InBucket(i, g)}) = 1
        /\ \A g \in 1..Len(grouped) : Len(grouped[g].observations) >= 1
        /\ SumSeq([g \in 1..Len(grouped) |-> Int2Num(Len(grouped[g].observations))])
             = Int2Num(Len(inObs))
        /\ \A i, j \in 1..Len(inObs) :
             (\E g \in 1..Len(grouped) : InBucket(i, g) /\ InBucket(j, g))
               <=> SamePeriod(i, j)

C28_Witness ==
  /\ kind = "aggregateToQuarterly"
  /\ Len(inObs) = 3
  /\ {inObs[i].date : i \in 1..3} = {20230331, 20230401, 20230630}
  /\ Len(grouped) = 2
  /\ \E g \in 1..2 : Len(grouped[g].observations) = 2

\* C30: fetchRecessionDates returns exactly the maximal runs of consecutive
\* observations with value 1: periods ascend and do not overlap, each starts
\* at the first and ends at the last observation of its run (start <= end,
\* end never empty), and every observation with value 1 is in exactly one.
C30_MaximalRuns ==
  kind = "fetchRecessionDates" =>
    LET IsOne(i) == i \in 1..Len(inObs) /\ inObs[i].value = Int2Num(1)
        runs == {r \in (1..Len(inObs)) \X (1..Len(inObs)) :
                   /\ r[1] <= r[2]
                   /\ \A i \in r[1]..r[2] : IsOne(i)
                   /\ ~IsOne(r[1] - 1) /\ ~IsOne(r[2] + 1)}
    IN  /\ Len(outObs) = Cardinality(runs)
        /\ \A r \in runs :
             \E k \in 1..Len(outObs) :
               outObs[k] = [start |-> inObs[r[1]].date, end |-> inObs[r[2]].date]
        /\ \A k \in 1..Len(outObs) : outObs[k].end # 0 /\ outObs[k].start <= outObs[k].end
        /\ \A k \in 1..(Len(outObs) - 1) : outObs[k].end < outObs[k + 1].start
        /\ \A i \in 1..Len(inObs) :
             Cardinality({k \in 1..Len(outObs) :
                            outObs[k].start <= inObs[i].date
                            /\ inObs[i].date <= outObs[k].end})
               = IF IsOne(i) THEN 1 ELSE 0

C30_Witness ==
  /\ kind = "fetchRecessionDates"
  /\ Len(inObs) = MaxRecessionLen
  /\ Len(outObs) = 2
  /\ outObs[1].start < outObs[1].end
  /\ \E i \in 1..Len(inObs) : IsNull(inObs[i].value)
  /\ outObs[2].end = inObs[Len(inObs)].date

\* C23: every getSeriesData call returns the series that fetching and
\* running processTimeSeriesData with that call's own parameters produces,
\* whether it is served from the cache or computed.
C23_CacheTransparent ==
  kind = "getSeriesData" => results = processedSeries(upstream, request)

\* C24: the TTL of a cached result is that of the frequency of the resulting
\* series: daily 3600, weekly 14400, monthly 86400, quarterly 172800; a daily
\* source resampled to monthly is cached with the monthly TTL.
C24_TTLOfResultFrequency ==
  \A key \in DOMAIN kv :
    LET resultFrequency ==
          IF <<upstream.frequency_short, key.frequency>> \in SupportedPairs
          THEN key.frequency ELSE upstream.frequency_short
    IN  kv[key].expirationTtl =
          CASE resultFrequency = "D" -> 3600
            [] resultFrequency = "W" -> 14400
            [] resultFrequency = "M" -> 86400
            [] resultFrequency = "Q" -> 172800

\* C29: in a run of updateIndicators a series whose fetch fails is recorded
\* in `failed` and the other series are still handled; a series that failed
\* in the previous run and whose fetch succeeds in this run has its
\* series:data entry refreshed by this run.
C29_FailedSeriesRefreshed ==
  [][results'.timestamp # results.timestamp =>
       \A seriesId \in DOMAIN upstream :
         /\ ~upstream[seriesId].available
              <=> \E i \in 1..Len(results'.failed) : results'.failed[i].seriesId = seriesId
         /\ ((\E i \in 1..Len(results.failed) : results.failed[i].seriesId = seriesId)
              /\ upstream[seriesId].available) =>
               /\ <<"series:data:", seriesId>> \in DOMAIN kv'
               /\ kv'[<<"series:data:", seriesId>>].value.last_updated
                    = upstream[seriesId].last_updated]_vars

====
